---- MODULE Spec2Model ----
(***************************************************************************)
(* LitScanner2: the chunked literature-search job runner.                  *)
(*                                                                         *)
(* The Progress Store (Redis) holds, per job, a metadata hash and two JSON *)
(* blobs (":papers", ":papers_processed").  Every Redis command is one     *)
(* atomic step; a handler is the sequence of its commands, with the local  *)
(* computation between two commands folded into the step that follows it.  *)
(* Drivers: api/worker_step.py (worker_step), api/index.py (run_job),      *)
(* api/run_job.py (handler), worker.py (process_job), the last three all   *)
(* through tasks_impl.run_pipeline.                                        *)
(*                                                                         *)
(* Numbers are stored in Redis as decimal strings (str(n)) and read back   *)
(* with int(s); on integers that round trip is exact, so a numeric field   *)
(* is modelled by the integer it denotes.                                  *)
(***************************************************************************)
EXTENDS Integers, Sequences, FiniteSets, TLC

(* ------------------------------ bounds -------------------------------- *)
\* number of job ids
NumJobs == 2
\* largest result list the provider sends back for one query
MaxResults == 3
\* largest max_papers / per_run a job is created with
MaxCap == 3
\* number of driver invocations (worker_step, run_job, handler, process_job)
\* in one behaviour
MaxRuns == 4
\* the same, where two worker_step invocations race
RaceRuns == 2
\* the same, where all four drivers interleave
MixRuns == 2
\* the same, where the key scan steps two jobs
ScanRuns == 2

Jobs == 1..NumJobs
Caps == 1..MaxCap

(* --------------------------- program constants ------------------------ *)
DEFAULT_MAX_PAPERS == 7000
DEFAULT_PER_RUN == 100
DISCOVERY_PROGRESS_CAP == 50
PROCESSING_PROGRESS_CAP == 99

Eligible == {"queued", "discovering", "processing", "summarizing"}

(* ------------------------------ helpers ------------------------------- *)
Min(a, b) == IF a <= b THEN a ELSE b
Max(a, b) == IF a >= b THEN a ELSE b

\* int((a / b) * 100): the float expression equals the floor of 100a/b on
\* every pair the bounds allow (checked against Python for a < 12, b < 8)
Pct(a, b) == (a * 100) \div b

\* a Redis hash: a function from field names to values; no key = no fields
EmptyHash == [k \in {} |-> 0]

\* dict.get(k, default)
Get(h, k, default) == IF k \in DOMAIN h THEN h[k] ELSE default

\* HSET key mapping=m: the named fields are overwritten, the others kept
Hset(h, m) ==
    [k \in (DOMAIN h) \cup (DOMAIN m) |-> IF k \in DOMAIN m THEN m[k] ELSE h[k]]

\* seq[a:b] of Python, 0-based, for 0 <= a
Slice(seq, a, b) == SubSeq(seq, a + 1, Min(b, Len(seq)))

\* all orders in which a key scan can return the members of S
Orders(S) ==
    {q \in UNION {[1..n -> S] : n \in {Cardinality(S)}} :
        \A a, b \in 1..Cardinality(S) : a # b => q[a] # q[b]}

(* ------------------------------ provider ------------------------------ *)
\* A raw record of the provider's "results" array.  form "raw" is a JSON
\* object (a work), form "bad" is any JSON value that is not an object.
\* The provider answers a query with the same works in the same order, or
\* fails; the callers do not check the length of the response against the
\* per-page parameter they sent, and neither does the model.
RawForms == {"raw", "bad"}
Pages ==
    UNION {[1..n -> RawForms] : n \in 0..MaxResults}
\* pages of works only
WellFormedPages == {kinds \in Pages : \A i \in 1..Len(kinds) : kinds[i] = "raw"}
\* pages of works only, or with a malformed first record
MixPages == {kinds \in Pages : \A i \in 2..Len(kinds) : kinds[i] = "raw"}
Page(kinds) == [i \in 1..Len(kinds) |-> [id |-> i, form |-> kinds[i]]]

(* ------------------------------- state -------------------------------- *)
VARIABLES
    meta,       \* meta[j]: the hash under JOB_PREFIX + j (EmptyHash: no key)
    papers,     \* papers[j]: the list stored under JOB_PREFIX + j + ":papers"
    processed,  \* processed[j]: the list under JOB_PREFIX + j + ":papers_processed"
    ws,         \* ws[w]: the locals of worker_step invocation w
    rn,         \* rn[r]: the locals of run-to-completion driver r
    chunks,     \* chunks[j]: the slices worker_step has processed for j, in
                \* order, while j was not yet done (history)
    runs,       \* number of driver invocations started so far
    catalog,    \* catalog[j]: the works the provider holds for j's title
    poll        \* poll[c]: where the auto-poll loop of client c stands

vars == <<meta, papers, processed, ws, rn, chunks, runs, catalog, poll>>

Steppers == {"w1", "w2"}
Runners == {"run_job", "handler", "process_job"}
\* the two Streamlit clients: app.py and frontend.py
Pollers == {"app", "frontend"}

IdleW ==
    [pc |-> "idle", cands |-> <<>>, status |-> "",
     max_papers |-> 0, per_run |-> 0, offset |-> 0,
     papers_list |-> <<>>, existing |-> <<>>, fetched |-> FALSE]

IdleR == [pc |-> "idle", job |-> 0, max_papers |-> 0, records |-> <<>>, summary |-> 0]

Init ==
    /\ meta = [j \in Jobs |-> EmptyHash]
    /\ papers = [j \in Jobs |-> <<>>]
    /\ processed = [j \in Jobs |-> <<>>]
    /\ ws = [w \in Steppers |-> IdleW]
    /\ rn = [r \in Runners |-> IdleR]
    /\ chunks = [j \in Jobs |-> <<>>]
    /\ runs = 0
    /\ catalog = [j \in Jobs |-> <<>>]
    /\ poll = [c \in Pollers |-> "off"]

(* --------------------------- create_project --------------------------- *)
CreateMeta(mp, pr) ==
    [max_papers |-> mp, per_run |-> pr, status |-> "queued",
     progress |-> 0, next_offset |-> 0]

\* POST /api/projects: a fresh id, the metadata hash and an empty :papers.
\* kinds: what the provider holds for the title the job is created with
Create(j, mp, pr, kinds) ==
    /\ meta[j] = EmptyHash
    /\ meta' = [meta EXCEPT ![j] = Hset(@, CreateMeta(mp, pr))]
    /\ papers' = [papers EXCEPT ![j] = <<>>]
    /\ catalog' = [catalog EXCEPT ![j] = Page(kinds)]
    /\ UNCHANGED <<processed, ws, rn, chunks, runs, poll>>

(* ----------------------------- worker_step ---------------------------- *)
\* normalize(p): p.get raises on anything that is not a dict
CanNormalize(p) == p.form # "bad"
normalize(p) == [id |-> p.id, form |-> "ws"]

RECURSIVE NormalizeChunk(_)
\* the loop of lines 108-112: a record whose normalization raises is skipped
NormalizeChunk(seq) ==
    IF seq = <<>> THEN <<>>
    ELSE IF CanNormalize(Head(seq))
         THEN <<normalize(Head(seq))>> \o NormalizeChunk(Tail(seq))
         ELSE NormalizeChunk(Tail(seq))

RECURSIVE AppendResults(_, _, _)
\* the loop of lines 94-97: append, stop once max_papers records are held
AppendResults(pl, results, mp) ==
    IF results = <<>> THEN pl
    ELSE LET pl2 == Append(pl, Head(results))
         IN  IF Len(pl2) >= mp THEN pl2
             ELSE AppendResults(pl2, Tail(results), mp)

\* discovery whenever the list is empty, whatever the status
DiscoveryCondAnyStatus(status, pl) == Len(pl) = 0

DiscoveryCond(status, pl) == status = "queued" /\ Len(pl) = 0

\* processing whatever the list holds
ProcessingCondAlways(pl) == TRUE

\* line 105
ProcessingCond(pl) == Len(pl) > 0

DiscoveredMapping(pl, mp) ==
    [status |-> "discovering",
     progress |-> Min(DISCOVERY_PROGRESS_CAP, Pct(Len(pl), mp))]

DiscoveryFailedMapping ==
    [status |-> "discovering", progress |-> 0, error |-> "fetch failed"]

\* a slice one record longer than per_run
ToProcessOneMore(pl, offset, per_run) == Slice(pl, offset, offset + per_run + 1)

ToProcess(pl, offset, per_run) == Slice(pl, offset, offset + per_run)

\* the offset left where it was
NewOffsetStuck(offset, to_process) == offset

NewOffset(offset, to_process) == offset + Len(to_process)

ProcessingMapping(new_offset, mp) ==
    [next_offset |-> new_offset,
     progress |-> Min(Pct(new_offset, Max(1, mp)), PROCESSING_PROGRESS_CAP),
     status |-> "processing"]

\* completion only once the offset is past the end
CompletionCondStrict(new_offset, mp, pl) == new_offset > mp \/ new_offset > Len(pl)

CompletionCond(new_offset, mp, pl) == new_offset >= mp \/ new_offset >= Len(pl)

StepSummary(existing) == [num_papers |-> Len(existing), by |-> "worker_step"]

\* the completion write without its progress field
StepDoneMappingNoProgress(existing) ==
    [summary |-> StepSummary(existing), status |-> "done"]

StepDoneMapping(existing) ==
    [summary |-> StepSummary(existing), status |-> "done", progress |-> 100]

\* the invocations in flight; interleavings are explored between pairs of
\* invocations: a third one starts once one of two has returned
InFlight ==
    {w \in Steppers : ws[w].pc # "idle"} \cup {r \in Runners : rn[r].pc # "idle"}
MayStart == \E p \in Steppers \cup Runners : InFlight \subseteq {p}

\* every iteration taken for the first job id
CurFirst(w) == 1

\* the job the loop of line 68 is at
Cur(w) == Head(ws[w].cands)

\* the loop left after its first candidate
NextCandidateAbort(l) == IdleW

\* next iteration of the loop of line 68, or the return of line 147
NextCandidate(l) ==
    IF Len(l.cands) <= 1 THEN IdleW
    ELSE [IdleW EXCEPT !.pc = "loop", !.cands = Tail(l.cands)]

\* lines 53-54: the candidates when the request body names a project
Explicit(J) == {<<j>> : j \in J}

\* lines 57-65: the candidates of the key scan, the jobs of an eligible
\* status in the order in which SCAN returns their keys
Scanned(J) ==
    Orders({j \in J : /\ meta[j] # EmptyHash
                      /\ Get(meta[j], "status", "") \in Eligible})

\* lines 41-65 for a request whose candidate list is one of C
WsBeginWith(w, C) ==
    /\ ws[w].pc = "idle"
    /\ MayStart
    /\ \E c \in C :
           ws' = [ws EXCEPT ![w] =
                 IF c = <<>> THEN IdleW
                 ELSE [IdleW EXCEPT !.pc = "loop", !.cands = c]]
    /\ UNCHANGED <<meta, papers, processed, rn, chunks, catalog, poll>>

\* lines 41-65: the request body names a project, or the keys are scanned
WsBegin(w, J) == WsBeginWith(w, Explicit(J) \cup Scanned(J))

\* an invocation, counted against the budget B of invocations
WsStart(w, J, B) ==
    /\ runs < B
    /\ WsBegin(w, J)
    /\ runs' = runs + 1

\* an invocation of a caller that never stops calling (a cron, a poller)
WsInvoke(w, J) ==
    /\ WsBegin(w, J)
    /\ UNCHANGED runs

\* an invocation without project_id (scan mode), counted against B
WsScan(w, J, B) ==
    /\ runs < B
    /\ WsBeginWith(w, Scanned(J))
    /\ runs' = runs + 1

\* int(x) of lines 75-77: x is the text create_project stored, str(n) for
\* a number n and "None" for a field the request left null; int("None")
\* raises ValueError
IntRaises(x) == ToString(x) = ToString("None")

\* lines 75-76 on the hash m
ParseRaises(m) ==
    \/ IntRaises(Get(m, "max_papers", DEFAULT_MAX_PAPERS))
    \/ IntRaises(Get(m, "per_run", DEFAULT_PER_RUN))

\* lines 69-77: HGETALL and the parse of the numeric fields; a ValueError
\* of the parse is caught nowhere and ends the invocation
WsReadMeta(w) ==
    /\ ws[w].pc = "loop"
    /\ LET m == meta[Cur(w)]
       IN  ws' = [ws EXCEPT ![w] =
                 IF m = EmptyHash THEN NextCandidate(@)
                 ELSE IF ParseRaises(m) THEN IdleW
                 ELSE [@ EXCEPT !.pc = "get_papers",
                                !.status = Get(m, "status", "queued"),
                                !.max_papers = Get(m, "max_papers", DEFAULT_MAX_PAPERS),
                                !.per_run = Get(m, "per_run", DEFAULT_PER_RUN),
                                !.offset = Get(m, "next_offset", 0)]]
    /\ UNCHANGED <<meta, papers, processed, rn, chunks, runs, catalog, poll>>

\* lines 82-89 and 105: GET :papers, then the choice of the branch
WsReadPapers(w) ==
    /\ ws[w].pc = "get_papers"
    /\ LET pl == papers[Cur(w)]
       IN  ws' = [ws EXCEPT ![w] =
                 IF DiscoveryCond(@.status, pl)
                 THEN [@ EXCEPT !.pc = "fetch", !.papers_list = pl]
                 ELSE IF ProcessingCond(pl)
                 THEN [@ EXCEPT !.pc = "get_processed", !.papers_list = pl]
                 ELSE NextCandidate(@)]
    /\ UNCHANGED <<meta, papers, processed, rn, chunks, runs, catalog, poll>>

\* lines 91-98: the provider answers with a page, SET :papers
WsDiscover(w) ==
    /\ ws[w].pc = "fetch"
    /\ LET pl == AppendResults(ws[w].papers_list, catalog[Cur(w)], ws[w].max_papers)
       IN  /\ papers' = [papers EXCEPT ![Cur(w)] = pl]
           /\ ws' = [ws EXCEPT ![w] =
                    [@ EXCEPT !.pc = "hset_disc", !.fetched = TRUE,
                              !.papers_list = pl]]
    /\ UNCHANGED <<meta, processed, rn, chunks, runs, catalog, poll>>

\* lines 91-92, 100-102: the request times out or the status is not 2xx;
\* the failure is recorded and the loop goes on
WsDiscoverFails(w) ==
    /\ ws[w].pc = "fetch"
    /\ meta' = [meta EXCEPT ![Cur(w)] = Hset(@, DiscoveryFailedMapping)]
    /\ ws' = [ws EXCEPT ![w] = NextCandidate(@)]
    /\ UNCHANGED <<papers, processed, rn, chunks, runs, catalog, poll>>

\* line 99 (for max_papers = 0 the division raises and lines 100-102 run),
\* then line 105
WsHsetDiscovering(w) ==
    /\ ws[w].pc = "hset_disc"
    /\ IF ws[w].max_papers = 0
       THEN /\ meta' = [meta EXCEPT ![Cur(w)] = Hset(@, DiscoveryFailedMapping)]
            /\ ws' = [ws EXCEPT ![w] = NextCandidate(@)]
       ELSE /\ meta' = [meta EXCEPT ![Cur(w)] =
                  Hset(@, DiscoveredMapping(ws[w].papers_list, ws[w].max_papers))]
            /\ ws' = [ws EXCEPT ![w] =
                  IF ProcessingCond(@.papers_list)
                  THEN [@ EXCEPT !.pc = "get_processed"]
                  ELSE NextCandidate(@)]
    /\ UNCHANGED <<papers, processed, rn, chunks, runs, catalog, poll>>

\* lines 106-119: the slice is normalized and appended to GET :papers_processed
WsGetProcessed(w) ==
    /\ ws[w].pc = "get_processed"
    /\ LET l == ws[w]
           to_process == ToProcess(l.papers_list, l.offset, l.per_run)
       IN  ws' = [ws EXCEPT ![w] =
                 [@ EXCEPT !.pc = "set_processed",
                           !.existing = processed[Cur(w)] \o NormalizeChunk(to_process)]]
    /\ UNCHANGED <<meta, papers, processed, rn, chunks, runs, catalog, poll>>

\* line 120: SET :papers_processed
WsSetProcessed(w) ==
    /\ ws[w].pc = "set_processed"
    /\ processed' = [processed EXCEPT ![Cur(w)] = ws[w].existing]
    /\ ws' = [ws EXCEPT ![w].pc = "hset_proc"]
    /\ UNCHANGED <<meta, papers, rn, chunks, runs, catalog, poll>>

\* lines 122-127: the offset and the progress are stored, completion is decided
WsHsetProcessing(w) ==
    /\ ws[w].pc = "hset_proc"
    /\ LET l == ws[w]
           to_process == ToProcess(l.papers_list, l.offset, l.per_run)
           new_offset == NewOffset(l.offset, to_process)
       IN  /\ meta' = [meta EXCEPT ![Cur(w)] =
                      Hset(@, ProcessingMapping(new_offset, l.max_papers))]
           /\ ws' = [ws EXCEPT ![w] =
                    IF CompletionCond(new_offset, l.max_papers, l.papers_list)
                    THEN [@ EXCEPT !.pc = "hset_done"]
                    ELSE NextCandidate(@)]
           /\ chunks' = [chunks EXCEPT ![Cur(w)] =
                        IF l.status # "done" /\ Len(@) <= MaxResults
                        THEN Append(@, to_process) ELSE @]
    /\ UNCHANGED <<papers, processed, rn, runs, catalog, poll>>

\* lines 129-143: the summary, status done and progress 100 in one HSET
WsHsetDone(w) ==
    /\ ws[w].pc = "hset_done"
    /\ meta' = [meta EXCEPT ![Cur(w)] = Hset(@, StepDoneMapping(ws[w].existing))]
    /\ ws' = [ws EXCEPT ![w].pc = "set_final"]
    /\ UNCHANGED <<papers, processed, rn, chunks, runs, catalog, poll>>

\* lines 144-145: :papers is overwritten with the processed records
WsSetFinal(w) ==
    /\ ws[w].pc = "set_final"
    /\ papers' = [papers EXCEPT ![Cur(w)] = ws[w].existing]
    /\ ws' = [ws EXCEPT ![w] = NextCandidate(@)]
    /\ UNCHANGED <<meta, processed, rn, chunks, runs, catalog, poll>>

\* the loop body of lines 68-145, command by command
WsBody(w) ==
    \/ WsReadMeta(w)
    \/ WsReadPapers(w)
    \/ WsDiscover(w)
    \/ WsDiscoverFails(w)
    \/ WsHsetDiscovering(w)
    \/ WsGetProcessed(w)
    \/ WsSetProcessed(w)
    \/ WsHsetProcessing(w)
    \/ WsHsetDone(w)
    \/ WsSetFinal(w)

WorkerStep(w, J, B) ==
    \/ WsStart(w, J, B)
    \/ WsBody(w)

(* ----------------------------- run_pipeline --------------------------- *)
\* normalize_record(p): p.get raises on anything that is not a dict
normalize_record(p) == [id |-> p.id, form |-> "rp"]

\* discover_papers_openalex: the pages are concatenated and cut at limit; a
\* page whose request fails ends the loop with what was collected before it
\* (nothing, for the first page)
Discover(works, limit, failed) == IF failed THEN <<>> ELSE Slice(works, 0, limit)

StartedMapping == [status |-> "processing", progress |-> 2]

PipelineDiscoveringMapping == [status |-> "discovering", progress |-> 5]

PipelineSummarizingMapping == [status |-> "summarizing", progress |-> 60]

PipelineSummary(records) == [num_papers |-> Len(records), by |-> "run_pipeline"]

\* the completion write without its summary field
PipelineDoneMappingNoSummary(summary_obj) ==
    [status |-> "done", progress |-> 100]

PipelineDoneMapping(summary_obj) ==
    [summary |-> summary_obj, status |-> "done", progress |-> 100]

\* the write after run_pipeline has returned
FinishedMapping(r, summary) ==
    IF r = "process_job"
    THEN [status |-> "completed", progress |-> 100, result |-> summary]
    ELSE [status |-> "done", progress |-> 100, summary |-> summary]

ErrorMapping == [status |-> "error", progress |-> 0, error |-> "exception"]

\* HGETALL of the job's metadata; a job without metadata is answered 404
\* (run_job, handler) or skipped (the queue worker's loop)
RunStart(r, J, B) ==
    /\ rn[r].pc = "idle"
    /\ runs < B
    /\ MayStart
    /\ \E j \in J :
          /\ meta[j] # EmptyHash
          /\ rn' = [rn EXCEPT ![r] =
                   [IdleR EXCEPT !.pc = "hset_started", !.job = j,
                       !.max_papers = Get(meta[j], "max_papers", DEFAULT_MAX_PAPERS)]]
    /\ runs' = runs + 1
    /\ UNCHANGED <<meta, papers, processed, ws, chunks, catalog, poll>>

\* status processing, progress 2
RunHsetStarted(r) ==
    /\ rn[r].pc = "hset_started"
    /\ meta' = [meta EXCEPT ![rn[r].job] = Hset(@, StartedMapping)]
    /\ rn' = [rn EXCEPT ![r].pc = "rp_discovering"]
    /\ UNCHANGED <<papers, processed, ws, chunks, runs, catalog, poll>>

\* tasks_impl.py line 88
PipelineHsetDiscovering(r) ==
    /\ rn[r].pc = "rp_discovering"
    /\ meta' = [meta EXCEPT ![rn[r].job] = Hset(@, PipelineDiscoveringMapping)]
    /\ rn' = [rn EXCEPT ![r].pc = "rp_discover"]
    /\ UNCHANGED <<papers, processed, ws, chunks, runs, catalog, poll>>

\* every record of the list is a dict
AllNormalizable(found) == \A i \in 1..Len(found) : CanNormalize(found[i])

\* tasks_impl.py lines 89-95: discovery, the list comprehension, SET :papers
PipelineDiscover(r) ==
    /\ rn[r].pc = "rp_discover"
    /\ \E failed \in BOOLEAN :
          LET found == Discover(catalog[rn[r].job], rn[r].max_papers, failed)
              records == [i \in 1..Len(found) |-> normalize_record(found[i])]
          IN  /\ AllNormalizable(found)
              /\ papers' = [papers EXCEPT ![rn[r].job] = records]
              /\ rn' = [rn EXCEPT ![r] =
                       [@ EXCEPT !.pc = "rp_summarizing", !.records = records]]
    /\ UNCHANGED <<meta, processed, ws, chunks, runs, catalog, poll>>

\* tasks_impl.py line 91 raises on a record that is not a dict; the except
\* clause of run_job and of process_job stores the error, the handler of
\* api/run_job.py only answers 500
PipelineDiscoverFails(r) ==
    /\ rn[r].pc = "rp_discover"
    /\ ~AllNormalizable(Discover(catalog[rn[r].job], rn[r].max_papers, FALSE))
    /\ meta' = [meta EXCEPT ![rn[r].job] =
                   IF r = "handler" THEN @ ELSE Hset(@, ErrorMapping)]
    /\ rn' = [rn EXCEPT ![r] = IdleR]
    /\ UNCHANGED <<papers, processed, ws, chunks, runs, catalog, poll>>

\* tasks_impl.py line 108
PipelineHsetSummarizing(r) ==
    /\ rn[r].pc = "rp_summarizing"
    /\ meta' = [meta EXCEPT ![rn[r].job] = Hset(@, PipelineSummarizingMapping)]
    /\ rn' = [rn EXCEPT ![r].pc = "rp_done"]
    /\ UNCHANGED <<papers, processed, ws, chunks, runs, catalog, poll>>

\* tasks_impl.py lines 110-114
PipelineHsetDone(r) ==
    /\ rn[r].pc = "rp_done"
    /\ LET summary_obj == PipelineSummary(rn[r].records)
       IN  /\ meta' = [meta EXCEPT ![rn[r].job] = Hset(@, PipelineDoneMapping(summary_obj))]
           /\ rn' = [rn EXCEPT ![r] = [@ EXCEPT !.pc = "finish", !.summary = summary_obj]]
    /\ UNCHANGED <<papers, processed, ws, chunks, runs, catalog, poll>>

\* the driver's own write once run_pipeline has returned
RunFinish(r) ==
    /\ rn[r].pc = "finish"
    /\ meta' = [meta EXCEPT ![rn[r].job] = Hset(@, FinishedMapping(r, rn[r].summary))]
    /\ rn' = [rn EXCEPT ![r] = IdleR]
    /\ UNCHANGED <<papers, processed, ws, chunks, runs, catalog, poll>>

RunToCompletion(r, J, B) ==
    \/ RunStart(r, J, B)
    \/ RunHsetStarted(r)
    \/ PipelineHsetDiscovering(r)
    \/ PipelineDiscover(r)
    \/ PipelineDiscoverFails(r)
    \/ PipelineHsetSummarizing(r)
    \/ PipelineHsetDone(r)
    \/ RunFinish(r)

(* ------------------- sequential worker_step invocations --------------- *)
\* one job, stepped by one worker_step invocation at a time
NextStep ==
    \/ \E mp \in Caps, pr \in Caps, kinds \in Pages : Create(1, mp, pr, kinds)
    \/ WorkerStep("w1", {1}, MaxRuns)

SpecStep == Init /\ [][NextStep]_vars

(* ------------- two worker_step invocations on the same job ------------ *)
NextRace ==
    \/ \E mp \in Caps, pr \in Caps, kinds \in WellFormedPages : Create(1, mp, pr, kinds)
    \/ \E w \in Steppers : WorkerStep(w, {1}, RaceRuns)

SpecRace == Init /\ [][NextRace]_vars

(* ---- worker_step invoked again and again on one job, provider fair ----- *)
NextRetry ==
    \/ \E mp \in Caps, pr \in Caps, kinds \in WellFormedPages : Create(1, mp, pr, kinds)
    \/ WsInvoke("w1", {1})
    \/ WsBody("w1")

\* the caller keeps invoking worker_step, an invocation runs to its return,
\* and a provider that is asked again and again answers in the end
FairRetry ==
    /\ WF_vars(WsInvoke("w1", {1}))
    /\ WF_vars(WsBody("w1"))
    /\ SF_vars(WsDiscover("w1"))

SpecRetry == Init /\ [][NextRetry]_vars /\ FairRetry

(* ------------- sequential invocations, the store may fail ------------- *)
\* The store becomes unavailable: the Redis command the invocation is at
\* raises.  Outside the try of lines 90-102 nothing catches it; inside, the
\* HSET of the except clause (line 101) raises in turn.  Either way the
\* exception leaves worker_step, with nothing more written.
WsStoreUnavailable(w) ==
    /\ ws[w].pc # "idle"
    /\ ws' = [ws EXCEPT ![w] = IdleW]
    /\ UNCHANGED <<meta, papers, processed, rn, chunks, runs, catalog, poll>>

NextStore ==
    \/ \E mp \in Caps, pr \in Caps, kinds \in WellFormedPages : Create(1, mp, pr, kinds)
    \/ WorkerStep("w1", {1}, MaxRuns)
    \/ WsStoreUnavailable("w1")

SpecStore == Init /\ [][NextStore]_vars

(* ------ two jobs, created first, then stepped by the key scan -------- *)
\* a job created before the scheduler's first invocation
CreateFirst(j, mp, pr, kinds) ==
    /\ runs = 0
    /\ Create(j, mp, pr, kinds)

NextScan ==
    \/ \E j \in {1, 2}, mp \in Caps, kinds \in WellFormedPages : CreateFirst(j, mp, 1, kinds)
    \/ WsScan("w1", {1, 2}, ScanRuns)
    \/ WsBody("w1")

SpecScan == Init /\ [][NextScan]_vars

(* ---------------- two jobs, all drivers interleaved ------------------ *)
\* no result, one work, or one malformed record
FramePages == {kinds \in Pages : Len(kinds) <= 1}

NextFrame ==
    \/ \E j \in {1, 2}, kinds \in FramePages : Create(j, 1, 1, kinds)
    \/ WorkerStep("w1", {1, 2}, MixRuns)
    \/ \E r \in Runners : RunToCompletion(r, {1, 2}, MixRuns)

SpecFrame == Init /\ [][NextFrame]_vars

(* -------- all drivers interleaved on one job, command by command ------ *)
Next ==
    \/ \E mp \in Caps, pr \in {1, MaxCap}, kinds \in MixPages : Create(1, mp, pr, kinds)
    \/ WorkerStep("w1", {1}, MixRuns)
    \/ \E r \in Runners : RunToCompletion(r, {1}, MixRuns)

Spec == Init /\ [][Next]_vars

(* ======================= properties of the store ====================== *)
Exists(j) == meta[j] # EmptyHash
Status(j) == Get(meta[j], "status", "")
Progress(j) == Get(meta[j], "progress", 0)
NextOffset(j) == Get(meta[j], "next_offset", 0)
HasSummary(j) == "summary" \in DOMAIN meta[j]
AllIdle == InFlight = {}

\* C1: across sequential worker_step invocations the stored next_offset of a
\* job never decreases, and once an invocation has returned it is at most the
\* length of the list stored under the job's :papers key.
C1_OffsetWithinPapers ==
    [][\A j \in Jobs :
          /\ Get(meta'[j], "next_offset", 0) >= NextOffset(j)
          /\ ws'["w1"].pc = "idle" =>
                 Get(meta'[j], "next_offset", 0) <= Len(papers'[j])]_vars

\* C2: a job whose stored status is done has a summary field and progress
\* 100, whatever the drivers and however their commands interleave.
C2_DoneHasSummaryAndFullProgress ==
    \A j \in Jobs :
        Status(j) = "done" => HasSummary(j) /\ Progress(j) = 100

\* a job is read as done while another driver is in the middle of its run
C2_Witness ==
    /\ Status(1) = "done"
    /\ \E r \in Runners : rn[r].pc = "rp_summarizing"
    /\ ws["w1"].pc = "idle"

\* C3: whenever the stored progress is 100 the summary field is readable in
\* the same hash.
C3_FullProgressHasSummary ==
    \A j \in Jobs : Progress(j) = 100 => HasSummary(j)

\* progress 100 written by process_job, whose mapping carries no summary
C3_Witness ==
    /\ Progress(1) = 100
    /\ Status(1) = "completed"
    /\ "result" \in DOMAIN meta[1]

\* C4: a job whose stored progress is 100 has stored status done, whichever
\* driver completed it.
C4_FullProgressIsDone ==
    \A j \in Jobs : Progress(j) = 100 => Status(j) = "done"

NoDupIds(seq) == \A a, b \in 1..Len(seq) : a # b => seq[a].id # seq[b].id

\* C5: two worker_step invocations racing on one job never leave a processed
\* set longer than the discovered set, nor one holding a record twice.
C5_RaceKeepsProcessedWithinDiscovered ==
    \A j \in Jobs :
        /\ Len(processed[j]) <= Len(papers[j])
        /\ NoDupIds(processed[j])

\* run_pipeline, run for job j, has just stored its records under :papers
PipelineStoredPapers(j) ==
    \E r \in Runners :
        /\ rn[r].pc = "rp_summarizing"
        /\ rn[r].job = j
        /\ papers[j] = rn[r].records

\* C6: when run_pipeline and worker_step work on the same job, the stored
\* next_offset is never greater than the length of the list under :papers
\* (stated for the list run_pipeline has just stored).
C6_PipelineKeepsOffsetWithinPapers ==
    \A j \in Jobs : PipelineStoredPapers(j) => NextOffset(j) <= Len(papers[j])

\* C7: the stored progress of a job never decreases, except by the write that
\* records an error.
C7_ProgressNeverDecreases ==
    [][\A j \in Jobs :
          Get(meta'[j], "status", "") # "error" =>
              Get(meta'[j], "progress", 0) >= Progress(j)]_vars

CeilDiv(d, k) == (d + k - 1) \div k

\* chunk sizes k, ..., k and the remainder
ChunkPlan(d, k) ==
    [i \in 1..CeilDiv(d, k) |-> IF i * k <= d THEN k ELSE d - (i - 1) * k]

Sizes(c) == [i \in 1..Len(c) |-> Len(c[i])]

RECURSIVE Sum(_)
Sum(q) == IF q = <<>> THEN 0 ELSE Head(q) + Sum(Tail(q))

IsProperPrefix(a, b) == Len(a) < Len(b) /\ a = SubSeq(b, 1, Len(a))

\* the chunks processed so far for a job with d discovered records: all of
\* the plan once the job is done, a proper part of it before
ChunksFollowPlan(j, minD) ==
    LET k == Get(meta[j], "per_run", DEFAULT_PER_RUN)
        sizes == Sizes(chunks[j])
    IN  /\ (ws["w1"].pc = "idle" /\ Status(j) = "done") =>
               sizes = ChunkPlan(NextOffset(j), k)
        /\ (ws["w1"].pc = "set_final" /\ ws["w1"].status # "done") =>
               /\ Status(j) = "done"
               /\ sizes = ChunkPlan(Len(papers[j]), k)
        /\ (ws["w1"].pc = "idle" /\ Status(j) # "done" /\ Len(papers[j]) >= minD) =>
               /\ IsProperPrefix(sizes, ChunkPlan(Len(papers[j]), k))
               /\ NextOffset(j) = Sum(sizes)

AllRaw(seq) == \A i \in 1..Len(seq) : seq[i].form = "raw"

\* one processing step has sliced n records of a job with max_papers = per_run = n
SliceOfAll(j) ==
    /\ Exists(j)
    /\ ws["w1"].pc = "idle"
    /\ meta[j].max_papers = meta[j].per_run
    /\ Len(chunks[j]) = 1
    /\ Len(chunks[j][1]) = meta[j].max_papers

\* next_offset n, n normalized records, a summary of n papers, status done
AllProcessedAndDone(j) ==
    LET n == meta[j].max_papers
    IN  /\ NextOffset(j) = n
        /\ processed[j] = [i \in 1..n |-> [id |-> i, form |-> "ws"]]
        /\ HasSummary(j)
        /\ meta[j].summary.num_papers = n
        /\ Status(j) = "done"

C11_TerminalJobsUntouched ==
    [][(/\ ws["w1"].pc \notin {"idle", "loop"}
        /\ ws["w1"].status \in {"done", "error"}) =>
          /\ meta'[Cur("w1")] = meta[Cur("w1")]
          /\ papers'[Cur("w1")] = papers[Cur("w1")]
          /\ processed'[Cur("w1")] = processed[Cur("w1")]]_vars

\* the provider failed during the discovery of job j, which has works to find
DiscoveryFailed(j) ==
    /\ "error" \in DOMAIN meta[j]
    /\ Len(papers[j]) = 0
    /\ Len(catalog[j]) > 0

\* C12: after a provider failure during discovery, with worker_step invoked
\* again and again and a provider that answers in the end, the discovered
\* set of the job becomes non-empty.
C12_FailedDiscoveryIsRetried ==
    \A j \in Jobs : DiscoveryFailed(j) ~> (Len(papers[j]) > 0)

\* C13: an exception that is not a provider failure, raised while a driver
\* works on a job, leaves the job with status error and the message in its
\* error field.
C13_ExceptionStoresError ==
    [][\A r \in Runners :
          (rn[r].pc = "rp_discover" /\ rn'[r].pc = "idle") =>
              /\ Get(meta'[rn[r].job], "status", "") = "error"
              /\ "error" \in DOMAIN meta'[rn[r].job]]_vars

\* C14: once a job has a stored summary, no operation of any driver changes
\* its value.
C14_SummaryImmutable ==
    [][\A j \in Jobs :
          HasSummary(j) => meta'[j].summary = meta[j].summary]_vars

\* C15: when process_job returns without an exception, its job is stored
\* with status done, progress 100 and a summary.
C15_QueueRunEndsDone ==
    [][(rn["process_job"].pc = "finish" /\ rn'["process_job"].pc = "idle") =>
          LET m == meta'[rn["process_job"].job]
          IN  /\ Get(m, "status", "") = "done"
              /\ Get(m, "progress", 0) = 100
              /\ "summary" \in DOMAIN m]_vars

(* ------------------ the normalizers and the abstract ----------------- *)
\* largest word position of an inverted index
MaxPosition == 4
Positions == 0..MaxPosition
Words == {"the", "fox"}

\* JSON values as Python sees them: None, a str (the sequence of the slots
\* that single spaces separate, <<>> for ""), a dict
None == [t |-> "none", v |-> <<>>]
Str(slots) == [t |-> "str", v |-> slots]
Dict(f) == [t |-> "dict", v |-> f]
Truthy(x) ==
    CASE x.t = "none" -> FALSE
      [] x.t = "str" -> x.v # <<>>
      [] x.t = "dict" -> DOMAIN x.v # {}

\* p.get(k)
PyGet(p, k) == IF k \in DOMAIN p THEN p[k] ELSE None
\* x or y
PyOr(x, y) == IF Truthy(x) THEN x ELSE y

\* word -> positions, for every way of putting at most one word at a position
InvertedIndexes ==
    {[w \in {u \in Words : \E q \in Positions : a[q] = u} |->
         {q \in Positions : a[q] = w}] : a \in [Positions -> Words \cup {""}]}

Abstracts == {Str(<<>>), Str(<<"fox", "the">>)}

\* raw works: with an inverted index, with a plain abstract, with both
RawWorks ==
    {[abstract_inverted_index |-> Dict(ii)] : ii \in InvertedIndexes}
    \cup {[abstract |-> a] : a \in Abstracts}
    \cup {[abstract_inverted_index |-> Dict(ii), abstract |-> a] :
             ii \in InvertedIndexes, a \in Abstracts}

\* worker_step.py line 35: "abstract": p.get("abstract") or ""
normalize_abstract(p) == PyOr(PyGet(p, "abstract"), Str(<<>>))

\* tasks_impl.py line 60:
\* p.get("abstract_inverted_index") or p.get("abstract") or ""
normalize_record_abstract(p) ==
    PyOr(PyGet(p, "abstract_inverted_index"),
         PyOr(PyGet(p, "abstract"), Str(<<>>)))

\* the provider holds one raw work for job 1
InitNormalize ==
    /\ meta = [j \in Jobs |-> EmptyHash]
    /\ papers = [j \in Jobs |-> <<>>]
    /\ processed = [j \in Jobs |-> <<>>]
    /\ ws = [w \in Steppers |-> IdleW]
    /\ rn = [r \in Runners |-> IdleR]
    /\ chunks = [j \in Jobs |-> <<>>]
    /\ runs = 0
    /\ \E p \in RawWorks : catalog = [j \in Jobs |-> IF j = 1 THEN <<p>> ELSE <<>>]
    /\ poll = [c \in Pollers |-> "off"]

\* worker_step normalizes the work into :papers_processed
NormalizeApply ==
    /\ processed[1] = <<>>
    /\ processed' = [processed EXCEPT ![1] =
                        <<[abstract |-> normalize_abstract(catalog[1][1])]>>]
    /\ UNCHANGED <<meta, papers, ws, rn, chunks, runs, catalog, poll>>

\* run_pipeline normalizes the work into :papers
NormalizeRecordApply ==
    /\ papers[1] = <<>>
    /\ papers' = [papers EXCEPT ![1] =
                     <<[abstract |-> normalize_record_abstract(catalog[1][1])]>>]
    /\ UNCHANGED <<meta, processed, ws, rn, chunks, runs, catalog, poll>>

NextNormalize ==
    \/ NormalizeApply
    \/ NormalizeRecordApply

SpecNormalize == InitNormalize /\ [][NextNormalize]_vars

\* the slots 0..max(position), each holding the word listed at it, or ""
Reconstruct(ii) ==
    LET used == UNION {ii[w] : w \in DOMAIN ii}
        last == CHOOSE q \in used : \A r \in used : r <= q
    IN  [i \in 1..(last + 1) |->
            IF \E w \in DOMAIN ii : (i - 1) \in ii[w]
            THEN CHOOSE w \in DOMAIN ii : (i - 1) \in ii[w]
            ELSE ""]

\* the abstract of a normalized record is the text rebuilt from the index
IsReconstructed(out, p) ==
    /\ out.abstract.t = "str"
    /\ out.abstract.v = Reconstruct(p.abstract_inverted_index.v)

\* C16: for a raw work whose abstract is a non-empty inverted index, both
\* normalizers produce the abstract rebuilt from it: max(position)+1 slots,
\* each word at each of its positions, the other slots empty.
C16_AbstractReconstructed ==
    LET p == catalog[1][1]
    IN  Truthy(PyGet(p, "abstract_inverted_index")) =>
            /\ processed[1] # <<>> => IsReconstructed(processed[1][1], p)
            /\ papers[1] # <<>> => IsReconstructed(papers[1][1], p)

\* the order of the statuses of the job state machine
StatusOrder == <<"queued", "discovering", "processing", "summarizing", "done">>
Rank(s) == CHOOSE i \in 1..Len(StatusOrder) : StatusOrder[i] = s
InOrder(s) == \E i \in 1..Len(StatusOrder) : StatusOrder[i] = s

\* C17: a write that changes the stored status of a job moves it forward in
\* the order queued, discovering, processing, summarizing, done, or to
\* error; nothing is written over error.
C17_StatusMovesForward ==
    [][\A j \in Jobs :
          LET old == Status(j)
              new == Get(meta'[j], "status", "")
          IN  (Exists(j) /\ new # old) =>
                  /\ old # "error"
                  /\ \/ new = "error"
                     \/ /\ InOrder(old)
                        /\ InOrder(new)
                        /\ Rank(new) > Rank(old)]_vars

\* C18: an invocation of worker_step in which the discovery fetch succeeded
\* returns with the job stored in status discovering and next_offset as it
\* was (0); the first chunk is processed by a later invocation.
C18_DiscoveryIsTheWholeUnit ==
    [][(ws["w1"].fetched /\ ws'["w1"].pc = "idle") =>
          /\ Get(meta'[Cur("w1")], "status", "") = "discovering"
          /\ Get(meta'[Cur("w1")], "next_offset", 0) = 0]_vars

\* the step in which the provider request of the current job fails
FetchFailsStep == ws["w1"].pc = "fetch" /\ ws'["w1"].pc # "hset_disc"

\* the step in which the invocation returns
ReturnStep == ws["w1"].pc # "idle" /\ ws'["w1"].pc = "idle"

\* C19: in a scan-mode invocation, a failed provider request is recorded on
\* its job only (status discovering, progress as it was, the error set,
\* nothing else stored for any job changes), the loop goes on with the
\* remaining candidates, and when the invocation returns every other job
\* with works to find and no failure of its own has had a chunk processed.
C19_FailureStaysOnItsJob ==
    [][/\ FetchFailsStep =>
             LET c == Cur("w1")
             IN  /\ Get(meta'[c], "status", "") = "discovering"
                 /\ "error" \in DOMAIN meta'[c]
                 /\ Get(meta'[c], "progress", 0) = Progress(c)
                 /\ Get(meta'[c], "next_offset", 0) = NextOffset(c)
                 /\ \A j \in Jobs \ {c} : meta'[j] = meta[j]
                 /\ papers' = papers
                 /\ processed' = processed
                 /\ Len(ws["w1"].cands) > 1 =>
                        /\ ws'["w1"].pc = "loop"
                        /\ ws'["w1"].cands = Tail(ws["w1"].cands)
       /\ ReturnStep =>
             \A a, b \in Jobs :
                 (/\ a # b
                  /\ "error" \in DOMAIN meta'[a]
                  /\ meta'[b] # EmptyHash
                  /\ "error" \notin DOMAIN meta'[b]
                  /\ Len(catalog[b]) > 0) =>
                     /\ Get(meta'[b], "next_offset", 0) > 0
                     /\ Len(processed'[b]) > 0]_vars

\* one scan: the request of job 1 failed, job 2 had its first chunk processed
C19_Witness ==
    /\ runs = 1
    /\ ws["w1"].pc = "idle"
    /\ Status(1) = "discovering"
    /\ "error" \in DOMAIN meta[1]
    /\ Len(papers[1]) = 0
    /\ Exists(2)
    /\ NextOffset(2) > 0
    /\ Len(processed[2]) > 0

\* C20: when the store fails in the middle of a processing step, the step
\* leaves no partial write: between invocations the processed set is not
\* ahead of next_offset, and it holds no record twice.
C20_NoPartialWrite ==
    \A j \in Jobs :
        ws["w1"].pc = "idle" =>
            /\ Len(processed[j]) <= NextOffset(j)
            /\ NoDupIds(processed[j])

IsPrefix(a, b) == Len(a) <= Len(b) /\ a = SubSeq(b, 1, Len(a))

\* the discovered set of job j as the discovery step stores it
Discovered(j) == AppendResults(<<>>, catalog[j], Get(meta[j], "max_papers", DEFAULT_MAX_PAPERS))

\* C21: under sequential worker_step invocations :papers_processed grows by
\* appending only, and after each invocation it holds the normalizations of
\* the discovered records 0 .. next_offset-1, in discovery order, without
\* the records dropped as malformed.
C21_ProcessedAppendOnly ==
    [][\A j \in Jobs :
          /\ IsPrefix(processed[j], processed'[j])
          /\ ws'["w1"].pc = "idle" =>
                 processed'[j] =
                     NormalizeChunk(Slice(Discovered(j)', 0,
                                          Get(meta'[j], "next_offset", 0)))]_vars

\* two chunks appended one after the other, the malformed first record dropped
C21_Witness ==
    /\ ws["w1"].pc = "idle"
    /\ Len(chunks[1]) >= 2
    /\ NextOffset(1) = 3
    /\ processed[1] = <<[id |-> 2, form |-> "ws"], [id |-> 3, form |-> "ws"]>>

\* the three keys of job b are left as they are
KeysUnchanged(b) ==
    /\ meta'[b] = meta[b]
    /\ papers'[b] = papers[b]
    /\ processed'[b] = processed[b]

\* C22: a step that a driver takes for job A (an iteration of worker_step's
\* loop, a run of run_job, handler or process_job) leaves the metadata
\* hash, :papers and :papers_processed of every other job unchanged.
C22_OtherJobsUntouched ==
    [][/\ (ws["w1"].pc # "idle" /\ ws'["w1"] # ws["w1"]) =>
              \A b \in Jobs \ {Head(ws["w1"].cands)} : KeysUnchanged(b)
       /\ \A r \in Runners :
              (rn[r].pc # "idle" /\ rn'[r] # rn[r]) =>
                  \A b \in Jobs \ {rn[r].job} : KeysUnchanged(b)]_vars

\* worker_step has completed job 2 while process_job is running job 1
C22_Witness ==
    /\ Status(2) = "done"
    /\ meta[2].summary.by = "worker_step"
    /\ rn["process_job"].job = 1
    /\ rn["process_job"].pc = "rp_done"
    /\ Status(1) = "summarizing"

\* the number of records of seq that are JSON objects
RECURSIVE CountObjects(_)
CountObjects(seq) ==
    IF seq = <<>> THEN 0
    ELSE (IF Head(seq).form # "bad" THEN 1 ELSE 0) + CountObjects(Tail(seq))

\* C23: a malformed raw record does not abort the work on the others:
\* worker_step stores the normalizations of the other records of the chunk,
\* and run_pipeline stores the normalizations of the other records it
\* discovered and goes on, without failing the job.
C23_BadRecordDoesNotAbort ==
    [][/\ (ws["w1"].pc = "set_processed" /\ ws'["w1"] # ws["w1"]) =>
              LET l == ws["w1"]
              IN  Len(processed'[Cur("w1")]) =
                      Len(processed[Cur("w1")])
                      + CountObjects(Slice(l.papers_list, l.offset, l.offset + l.per_run))
       /\ \A r \in Runners :
              (rn[r].pc = "rp_discover" /\ rn'[r] # rn[r]) =>
                  /\ rn'[r].pc = "rp_summarizing"
                  /\ Get(meta'[rn[r].job], "status", "") # "error"
                  /\ Len(papers'[rn[r].job]) = Len(rn'[r].records)]_vars

\* job j is past queued and has no discovered record
Inert(j) ==
    /\ Exists(j)
    /\ Status(j) # "queued"
    /\ Len(papers[j]) = 0

WsBodyFetched(w) ==
    \/ WsReadMeta(w)
    \/ WsReadPapers(w)
    \/ WsDiscover(w)
    \/ WsHsetDiscovering(w)
    \/ WsGetProcessed(w)
    \/ WsSetProcessed(w)
    \/ WsHsetProcessing(w)
    \/ WsHsetDone(w)
    \/ WsSetFinal(w)

NextLive ==
    \/ \E mp \in 1..MaxCap, pr \in 1..MaxCap, kinds \in Pages : Create(1, mp, pr, kinds)
    \/ WsInvoke("w1", {1})
    \/ WsBodyFetched("w1")

\* the caller keeps invoking worker_step and an invocation runs to its return
FairLive ==
    /\ WF_vars(WsInvoke("w1", {1}))
    /\ WF_vars(WsBodyFetched("w1"))

SpecLive == Init /\ [][NextLive]_vars /\ FairLive

\* C25: when worker_step is invoked again and again and every fetch succeeds,
\* a job created with max_papers >= 1 and per_run >= 1 eventually reaches
\* status done, whatever page the provider returns, the empty page included.
C25_EveryJobEventuallyDone ==
    Exists(1) ~> Status(1) = "done"

\* C26: whenever status done is visible for a job completed by worker_step,
\* :papers already holds the processed, normalized records, so the total of
\* the papers endpoint equals the summary's num_papers; done is never
\* visible together with the raw discovered records.
C26_DoneServesProcessedSet ==
    \A j \in Jobs :
        (/\ Status(j) = "done"
         /\ HasSummary(j)
         /\ meta[j].summary.by = "worker_step") =>
            /\ \A i \in 1..Len(papers[j]) : papers[j][i].form = "ws"
            /\ Len(papers[j]) = meta[j].summary.num_papers

(* ---- two jobs stepped by the key scan, one with a null numeric field --- *)
\* POST /api/projects with "max_papers": null or "per_run": null: the
\* field is Optional[int], and str(None) is what the hash stores
CreateNull(j, field, kinds) ==
    CreateFirst(j, IF field = "max_papers" THEN "None" ELSE 1,
                   IF field = "per_run" THEN "None" ELSE 1, kinds)

NextNull ==
    \/ \E j \in {1, 2}, mp \in Caps, kinds \in WellFormedPages : CreateFirst(j, mp, 1, kinds)
    \/ \E j \in {1, 2}, field \in {"max_papers", "per_run"}, kinds \in WellFormedPages :
           CreateNull(j, field, kinds)
    \/ WsScan("w1", {1, 2}, ScanRuns)
    \/ WsBody("w1")

SpecNull == Init /\ [][NextNull]_vars

\* C27: in scan mode, an exception raised while stepping one job (a job
\* whose max_papers or per_run was stored as the string None) does not keep
\* the other eligible jobs from being advanced: the invocation goes on with
\* the candidates that follow the job.
C27_ExceptionStaysOnItsJob ==
    [][(/\ ws["w1"].pc = "loop"
        /\ Exists(Cur("w1"))
        /\ ParseRaises(meta[Cur("w1")])
        /\ ws'["w1"] # ws["w1"]) =>
          ws'["w1"] = NextCandidate(ws["w1"])]_vars

(* ------------------- the auto-poll loops of the clients ---------------- *)
\* the statuses on which the loop breaks: app.py line 93, frontend.py line 68
Breaks(c, status) ==
    IF c = "app" THEN status \in {"done", "error", "failed"}
    ELSE status \in {"done", "failed"}

\* the auto-poll button is pressed for job j (app.py 83-85, frontend.py 60-62)
PollStart(c, j) ==
    /\ poll[c] = "off"
    /\ Exists(j)
    /\ poll' = [poll EXCEPT ![c] = "request"]
    /\ UNCHANGED <<meta, papers, processed, ws, rn, chunks, runs, catalog>>

\* GET /status answers with the job's hash; break, or go on to the sleep
\* (app.py 87-94, frontend.py 64-70)
PollRequest(c, j) ==
    /\ poll[c] = "request"
    /\ poll' = [poll EXCEPT ![c] =
                   IF Breaks(c, Get(meta[j], "status", "")) THEN "stopped" ELSE "sleep"]
    /\ UNCHANGED <<meta, papers, processed, ws, rn, chunks, runs, catalog>>

\* time.sleep, then the next turn of while True (app.py 98, frontend.py 74)
PollSleep(c) ==
    /\ poll[c] = "sleep"
    /\ poll' = [poll EXCEPT ![c] = "request"]
    /\ UNCHANGED <<meta, papers, processed, ws, rn, chunks, runs, catalog>>

\* one job, every driver, both clients polling it
NextPoll ==
    \/ \E kinds \in FramePages : Create(1, 1, 1, kinds)
    \/ WorkerStep("w1", {1}, MixRuns)
    \/ \E r \in Runners : RunToCompletion(r, {1}, MixRuns)
    \/ \E c \in Pollers : PollStart(c, 1)
    \/ \E c \in Pollers : PollRequest(c, 1)
    \/ \E c \in Pollers : PollSleep(c)

\* a loop that has been started keeps running: the request is answered and
\* the sleep ends
FairPoll ==
    \A c \in Pollers :
        /\ WF_vars(PollRequest(c, 1))
        /\ WF_vars(PollSleep(c))

SpecPoll == Init /\ [][NextPoll]_vars /\ FairPoll

\* the final statuses a driver can write: worker_step.py 143 and
\* tasks_impl.py 113 (done), worker.py 43 (completed), index.py 88 and
\* worker.py 50 (error)
FinalStatuses == {"done", "completed", "error"}

Polling(c) == poll[c] \in {"request", "sleep"}

\* C28: once the polled job has reached a final status (done, completed or
\* error) and keeps it, the auto-poll loop of app.py and that of frontend.py
\* terminate, the status requests being answered.
C28_PollLoopsTerminate ==
    \A c \in Pollers :
        Polling(c) ~> (poll[c] = "stopped" \/ Status(1) \notin FinalStatuses)

====
